---- MODULE Spec2Model ----
(***************************************************************************)
(* Model of scripts/flexible_freeze.py: a time-boxed VACUUM [FREEZE] sweep *)
(* over the databases of a PostgreSQL cluster.                             *)
(*                                                                         *)
(* Time is counted in ticks, TicksPerSecond of them to the second, so     *)
(* that time.time() has a fractional part.  The clock advances only       *)
(* inside the blocking calls of the program (connect, query, maintenance  *)
(* statement, sleep); a KeyboardInterrupt can be delivered at any of      *)
(* those points.                                                          *)
(*                                                                         *)
(* A string is a sequence of chunks; a chunk is either the separator ","   *)
(* or a piece of comma-free text, so that dblist.split(',') is computed as *)
(* the code computes it.  A database name is a sequence of chunks.         *)
(***************************************************************************)
EXTENDS Integers, Sequences, FiniteSets, TLC

VARIABLES
    args,         \* parsed command line: run_min, dblist, vacuum, enforcetime,
                  \* freezeage
    catalog,      \* the tables of the database self.conn is connected to
    pc,           \* position of the process in main()/execute()
    now,          \* time.time()
    halt_time,    \* main: halt_time
    db_list,      \* main: db_list
    db_idx,       \* main: position of `for db in db_list` (0 before the loop)
    table_list,   \* main: table_list of the current database
    tbl_idx,      \* main: position of `for table in table_list`
    time_exit,    \* main: time_exit
    table_count,  \* main: table_count
    db_count,     \* main: db_count
    conn,         \* self.conn: 0 is None, else an index into sessions
    admin,        \* get_db_list: its local conn (0 when there is none)
    sessions,     \* every connection the process made, in order
    stmts,        \* every maintenance statement the process sent, in order
    termReqs,     \* every pg_terminate_backend request the process sent
    summary,      \* the run-end summary that was logged (NoSummary if none yet)
    errors,       \* every failure the process logged or died of, in order
    interrupted,  \* a KeyboardInterrupt was delivered
    exitStatus,   \* process exit status (None until the process has ended)
    exitCause,    \* why the process ended
    exitAt        \* where the process was when it ended

vars == <<args, catalog, pc, now, halt_time, db_list, db_idx, table_list, tbl_idx,
          time_exit, table_count, db_count, conn, admin, sessions, stmts,
          termReqs, summary, errors, interrupted, exitStatus, exitCause,
          exitAt>>

----------------------------------------------------------------------------
(* Bounds of the model *)

MaxBudget == 1          \* largest --minutes value tried
MaxTime == 130          \* the clock is not advanced past this second
TicksPerSecond == 2     \* resolution of the clock
MaxTables == 3          \* largest number of rows a candidate query returns
MaxAge == 2             \* largest age(datfrozenxid) of a database
MaxRows == 3            \* most tables of a database the selectors are tried on

(* Program constants *)

SecondsPerMinute == 60  \* main: args.run_min * 60
GraceSecs == 30         \* vacuum: + 30
pause_time == 10        \* --pause default
DefaultFreezeAge == 10000000    \* --freezeage default
FreezeLimit == 1000     \* get_freeze_list: LIMIT 1000

(* Durations a blocking call can take, in ticks: nothing, a little over   *)
(* 50 seconds, 100 seconds                                                *)
Delays == {0, 50 * TicksPerSecond + 1, 100 * TicksPerSecond}

None == "None"
NoSummary == [reported |-> FALSE]
NoCatalog == {}         \* no database connected to yet

Sep == ","
Postgres == <<"postgres">>
Template0 == <<"template0">>
Template1 == <<"template1">>
Alpha == <<"alpha">>
Beta == <<"beta">>

(* The --databases values tried: "alpha,beta", "beta,alpha", "alpha",   *)
(* "alpha," and the empty string; NoList is the option not being given  *)
Overrides ==
    { <<"alpha", Sep, "beta">>, <<"beta", Sep, "alpha">>, <<"alpha">>,
      <<"alpha", Sep>>, <<>> }

NoList == [given |-> FALSE]
Given(s) == [given |-> TRUE, text |-> s]

----------------------------------------------------------------------------
(* str.split(',') *)

(* The names of the list in reverse order *)
RECURSIVE SplitReversed(_)
SplitReversed(s) ==
    IF s = <<>> THEN <<<<>>>>
    ELSE IF Head(s) = Sep THEN Append(SplitReversed(Tail(s)), <<>>)
    ELSE LET r == SplitReversed(Tail(s))
         IN [r EXCEPT ![Len(r)] = <<Head(s)>> \o @]

RECURSIVE SplitFrom(_, _, _)
SplitFrom(s, cur, acc) ==
    IF s = <<>> THEN Append(acc, cur)
    ELSE IF Head(s) = Sep THEN SplitFrom(Tail(s), <<>>, Append(acc, cur))
    ELSE SplitFrom(Tail(s), Append(cur, Head(s)), acc)

Split(s) == SplitFrom(s, <<>>, <<>>)

(* pg_database as the administrative query sees it: the three system rows *)
(* plus any user databases, each with its age(datfrozenxid)               *)
SystemRows ==
    { [datname |-> Postgres, age |-> MaxAge],
      [datname |-> Template0, age |-> 1],
      [datname |-> Template1, age |-> 1] }

PgDatabases ==
    { SystemRows \cup U :
        U \in { R \in SUBSET [datname : {Alpha, Beta}, age : 1..MaxAge] :
                  \A x, y \in R : x.datname = y.datname => x = y } }

(* SELECT datname FROM pg_database WHERE datname NOT IN (...)              *)
(* ORDER BY age(datfrozenxid) DESC: every order the server may return     *)
RankedDatabases(cat) ==
    LET rows == { r \in cat :
                    r.datname \notin {Postgres, Template1, Template0} }
        n == Cardinality(rows)
    IN { [i \in 1..n |-> f[i].datname] :
           f \in { g \in [1..n -> rows] :
                     /\ \A i, j \in 1..n : i # j => g[i] # g[j]
                     /\ \A i, j \in 1..n : i < j => g[i].age >= g[j].age } }

----------------------------------------------------------------------------
(* Connections *)

Session(db, kind, open, t) ==
    [db |-> db, kind |-> kind, open |-> open, at |-> t, cost |-> 0,
     listed |-> FALSE, tables |-> <<>>]

(* create_connection: what a call for dbname can do.  "noname": dbname is *)
(* empty and None is returned; "refused": the first connect raises and    *)
(* the process exits 1; "dropped": the first connect succeeds and the     *)
(* second raises; "ok": both succeed.                                     *)
ConnectOutcomes(dbname) ==
    IF dbname = <<>> THEN {"noname"} ELSE {"refused", "dropped", "ok"}

(* The sessions after create_connection(dbname), called at time t, with   *)
(* outcome oc.  The connection of line 78 is never bound to a name: it is *)
(* finalised as soon as set_isolation_level returns.                      *)
create_connection(ss, dbname, kind, oc, t) ==
    CASE oc = "ok" ->
           Append(Append(ss, Session(dbname, "probe", FALSE, t)),
                  Session(dbname, kind, TRUE, t))
      [] oc = "dropped" -> Append(ss, Session(dbname, "probe", FALSE, t))
      [] OTHER -> ss

(* conn.close() left out *)
CloseSessionForgotten(ss, c) == ss

(* conn.close(), lines 99, 197 and 250 *)
CloseSession(ss, c) == [ss EXCEPT ![c].open = FALSE]

OpenSessions == { i \in 1..Len(sessions) : sessions[i].open }

MaintSessions == { i \in 1..Len(sessions) : sessions[i].kind = "maint" }

----------------------------------------------------------------------------
(* Process termination *)

(* sys.exit(status), an uncaught exception (status 1), or the return of   *)
(* execute() (status 0)                                                   *)
Exit(status, cause) ==
    /\ pc' = "done"
    /\ exitStatus' = status
    /\ exitCause' = cause
    /\ exitAt' = pc

Continue(to) ==
    /\ pc' = to
    /\ UNCHANGED <<exitStatus, exitCause, exitAt>>

(* An exception that nothing catches: execute, lines 262-266, catches     *)
(* KeyboardInterrupt only, so the interpreter prints it and exits 1       *)
Uncaught == Exit(1, "uncaught")

(* A blocking call that takes d ticks *)
Elapse(d) ==
    /\ now + d <= MaxTime * TicksPerSecond
    /\ now' = now + d

Failure(kind, idx) == [kind |-> kind, db_idx |-> idx]

----------------------------------------------------------------------------
Init ==
    /\ args \in [run_min : 0..MaxBudget,
                 dblist : {NoList} \cup { Given(s) : s \in Overrides },
                 vacuum : BOOLEAN,
                 enforcetime : BOOLEAN,
                 freezeage : {DefaultFreezeAge}]
    /\ catalog = NoCatalog
    /\ pc = "start"
    /\ now = 0
    /\ halt_time = 0
    /\ db_list = <<>>
    /\ db_idx = 0
    /\ table_list = <<>>
    /\ tbl_idx = 0
    /\ time_exit = FALSE
    /\ table_count = 0
    /\ db_count = 0
    /\ conn = 0
    /\ admin = 0
    /\ sessions = <<>>
    /\ stmts = <<>>
    /\ termReqs = <<>>
    /\ summary = NoSummary
    /\ errors = <<>>
    /\ interrupted = FALSE
    /\ exitStatus = None
    /\ exitCause = None
    /\ exitAt = None

(* main, lines 200-209: the deadline is fixed, then get_db_list either    *)
(* splits the override or goes to the administrative database             *)
Begin ==
    /\ pc = "start"
    /\ halt_time' = now + args.run_min * SecondsPerMinute * TicksPerSecond
    /\ IF ~args.dblist.given
       THEN /\ Continue("admin_connect")
            /\ UNCHANGED db_list
       ELSE /\ db_list' = Split(args.dblist.text)
            /\ Continue("loop")
    /\ UNCHANGED <<args, catalog, now, db_idx, table_list, tbl_idx, time_exit,
                   table_count, db_count, conn, admin, sessions, stmts,
                   termReqs, summary, errors, interrupted>>

(* create_connection, lines 79-82: the handler of a refused connection,  *)
(* as it would be if it logged the failure and went on to the next        *)
(* database                                                               *)
ConnectRefusedSkips == Continue("loop")

(* create_connection, lines 79-82: the handler of a refused connection *)
ConnectRefused == Exit(1, "connect")

(* get_db_list, line 90 *)
AdminConnect ==
    /\ pc = "admin_connect"
    /\ \E d \in Delays, oc \in ConnectOutcomes(Postgres) :
         /\ Elapse(d)
         /\ sessions' = create_connection(sessions, Postgres, "admin", oc, now)
         /\ CASE oc = "ok" ->
                   /\ admin' = Len(sessions')
                   /\ Continue("admin_query")
                   /\ UNCHANGED errors
              [] oc = "refused" ->
                   /\ errors' = Append(errors, Failure("connect", 0))
                   /\ ConnectRefused
                   /\ UNCHANGED admin
              [] OTHER ->
                   /\ errors' = Append(errors, Failure("connect", 0))
                   /\ Uncaught
                   /\ UNCHANGED admin
    /\ UNCHANGED <<args, catalog, halt_time, db_list, db_idx, table_list, tbl_idx,
                   time_exit, table_count, db_count, conn, stmts, termReqs,
                   summary, interrupted>>

(* What get_db_list does with the rows of its query, lines 96-104: the    *)
(* list it built is never None, so line 100 always returns it             *)
DbListResult(rows) == [exits |-> FALSE, db_list |-> rows]

(* get_db_list, lines 91-104 *)
AdminQuery ==
    /\ pc = "admin_query"
    /\ \E d \in Delays, ok \in BOOLEAN :
         /\ Elapse(d)
         /\ IF ok
            THEN \E cat \in PgDatabases : \E rows \in RankedDatabases(cat) :
                   LET r == DbListResult(rows) IN
                   /\ sessions' = CloseSession(sessions, admin)
                   /\ UNCHANGED errors
                   /\ IF r.exits
                      THEN /\ Exit(0, "no_database")
                           /\ UNCHANGED db_list
                      ELSE /\ db_list' = r.db_list
                           /\ Continue("loop")
            ELSE /\ errors' = Append(errors, Failure("ranking", 0))
                 /\ Uncaught
                 /\ UNCHANGED <<db_list, sessions>>
    /\ UNCHANGED <<args, catalog, halt_time, db_idx, table_list, tbl_idx, time_exit,
                   table_count, db_count, conn, admin, stmts, termReqs,
                   summary, interrupted>>

(* The deadline test of line 241 *)
DeadlinePassedOff(t, halt) == t > halt

DeadlinePassed(t, halt) == t >= halt

(* int(x) of a float x given in ticks: the whole seconds, towards zero *)
IntSecs(x) ==
    IF x >= 0 THEN x \div TicksPerSecond ELSE -((-x) \div TicksPerSecond)

(* Line 176 with the remaining time rounded up to the next second *)
timeout_secs_ceil(halt, t) ==
    IntSecs(halt - t) + (IF (halt - t) % TicksPerSecond = 0 THEN 0 ELSE 1)
      + GraceSecs

(* vacuum, line 176 *)
timeout_secs(halt, t) == IntSecs(halt - t) + GraceSecs

(* Tables *)

(* A nullable value of a table: an age or a time, in minutes, since the   *)
(* last maintenance                                                       *)
Null == [null |-> TRUE, val |-> 0]
Val(v) == [null |-> FALSE, val |-> v]

Public == <<"public">>
PgCatalog == <<"pg_catalog">>
InformationSchema == <<"information_schema">>
PgTemp3 == <<"pg_temp", "_3">>
PgToast == <<"pg_toast">>

(* One relation of a database: its pg_class and pg_namespace columns, the *)
(* age of its toast relation (Null when it has none), and its statistics  *)
Table(name, nspname, relkind, age, toast_age, stats) ==
    [full_table_name |-> name, nspname |-> nspname, relkind |-> relkind,
     age |-> age, toast_age |-> toast_age,
     n_dead_tup |-> stats[1], n_live_tup |-> stats[2],
     table_bytes |-> stats[3],
     last_autovacuum |-> stats[4], last_vacuum |-> stats[5]]

(* A database of n ordinary tables, each a candidate of either mode, the  *)
(* i-th of them the i-th in the order of either candidate query           *)
MainCatalog(db, n) ==
    { Table(<<db, i>>, Public, "r", DefaultFreezeAge + 1 + (n - i), Null,
            <<1000 * (n - i + 1), 0, 2000000, Null, Null>>) : i \in 1..n }

MainCatalogs(db) == { MainCatalog(db, n) : n \in 0..MaxTables }

(* nspname LIKE 'pg_temp%' *)
LikePgTemp(nspname) == Len(nspname) >= 1 /\ nspname[1] = "pg_temp"

(* greatest() of line 139 with the age of the toast relation left out *)
greatest_table_only(r) == r.age

(* greatest(age(pg_class.relfrozenxid), age(toast.relfrozenxid)), line    *)
(* 139: a NULL argument is ignored                                        *)
greatest(r) ==
    IF ~r.toast_age.null /\ r.toast_age.val > r.age
    THEN r.toast_age.val ELSE r.age

(* The rows of the CTE tabfreeze, lines 137-147 *)
tabfreeze(cat) ==
    { r \in cat : /\ r.nspname \notin {PgCatalog, InformationSchema}
                  /\ ~LikePgTemp(r.nspname)
                  /\ r.relkind = "r" }

(* (now() - last) > INTERVAL '1 hour' OR last IS NULL, lines 117-120 *)
NotWithinHour(last) == last.null \/ last.val > 60

(* The view pg_stat_user_tables of line 115: a row for each table outside *)
(* the system schemas                                                     *)
pg_stat_user_tables(cat) ==
    { r \in cat : /\ r.nspname \notin {PgCatalog, InformationSchema, PgToast}
                  /\ r.relkind = "r" }

(* The rows of the CTE deadrow_tables, lines 111-121, with n_dead_tup     *)
(* >= 100 for the test of line 116                                        *)
deadrow_tables_from_100(cat) ==
    { r \in pg_stat_user_tables(cat) :
        /\ r.n_dead_tup >= 100
        /\ NotWithinHour(r.last_autovacuum)
        /\ NotWithinHour(r.last_vacuum) }

(* The rows of the CTE deadrow_tables, lines 111-121 *)
deadrow_tables(cat) ==
    { r \in pg_stat_user_tables(cat) :
        /\ r.n_dead_tup > 100
        /\ NotWithinHour(r.last_autovacuum)
        /\ NotWithinHour(r.last_vacuum) }

(* a comes before b under ORDER BY key DESC: "freeze_age" is line 151,    *)
(* "dead_pct" is dead_pct DESC, table_bytes DESC of line 126, where       *)
(* dead_pct = n_dead_tup / (n_live_tup + 1) is compared exactly           *)
Before(key, a, b) ==
    IF key = "freeze_age"
    THEN greatest(a) > greatest(b)
    ELSE LET pa == a.n_dead_tup * (b.n_live_tup + 1)
             pb == b.n_dead_tup * (a.n_live_tup + 1)
         IN  pa > pb \/ (pa = pb /\ a.table_bytes > b.table_bytes)

(* Every order of the rows of S *)
RECURSIVE Orderings(_)
Orderings(S) ==
    IF S = {} THEN {<<>>}
    ELSE UNION { { <<r>> \o t : t \in Orderings(S \ {r}) } : r \in S }

(* ORDER BY: every sequence of the rows of S in which no row comes after  *)
(* a row it is before; rows that tie come in any order.  The rows are     *)
(* divided around a median row p.                                         *)
RECURSIVE OrderBy(_, _)
OrderBy(S, key) ==
    IF S = {} THEN {<<>>}
    ELSE LET half == Cardinality(S) \div 2
             p == CHOOSE r \in S :
                    /\ Cardinality({ y \in S : Before(key, y, r) }) <= half
                    /\ Cardinality({ y \in S : Before(key, r, y) }) <= half
             above == { y \in S : Before(key, y, p) }
             below == { y \in S : Before(key, p, y) }
             peers == (S \ above) \ below
         IN  { a \o m \o b : a \in OrderBy(above, key),
                             m \in Orderings(peers),
                             b \in OrderBy(below, key) }

(* LIMIT k *)
Limit(rows, k) == IF Len(rows) <= k THEN rows ELSE SubSeq(rows, 1, k)

(* map(lambda (row): row[0], table_result_set), lines 132 and 157 *)
Names(rows) == [i \in 1..Len(rows) |-> rows[i].full_table_name]

(* get_vacuum_list, lines 109-132: every result the server may return *)
get_vacuum_list(cat) ==
    { Names(rows) :
        rows \in OrderBy({ r \in deadrow_tables(cat) :
                             /\ r.n_dead_tup * 100 > 5 * (r.n_live_tup + 1)
                             /\ r.table_bytes > 1000000 }, "dead_pct") }

(* get_freeze_list, lines 135-157: every result the server may return *)
get_freeze_list(cat, freeze_age) ==
    { Names(Limit(rows, FreezeLimit)) :
        rows \in OrderBy({ r \in tabfreeze(cat) : greatest(r) > freeze_age },
                         "freeze_age") }

(* main, lines 219-227: the next database of the list is connected to,    *)
(* and only then is time_exit looked at                                   *)
NextDatabase ==
    /\ pc = "loop"
    /\ IF db_idx = Len(db_list)
       THEN /\ Continue("report")
            /\ UNCHANGED <<catalog, now, db_idx, db_count, conn, sessions,
                           errors>>
       ELSE LET db == db_list[db_idx + 1] IN
            \E d \in Delays, oc \in ConnectOutcomes(db) :
              /\ Elapse(d)
              /\ db_idx' = db_idx + 1
              /\ sessions' = create_connection(sessions, db, "maint", oc, now)
              /\ CASE oc = "ok" ->
                        /\ conn' = Len(sessions')
                        /\ catalog' \in MainCatalogs(db)
                        /\ UNCHANGED errors
                        /\ IF time_exit
                           THEN /\ Continue("report")
                                /\ UNCHANGED db_count
                           ELSE /\ Continue("set_cost")
                                /\ db_count' = db_count + 1
                   [] oc = "noname" ->
                        \* self.conn is None: line 221 raises AttributeError
                        /\ conn' = 0
                        /\ errors' = Append(errors, Failure("noname", db_idx'))
                        /\ Uncaught
                        /\ UNCHANGED <<catalog, db_count>>
                   [] oc = "refused" ->
                        /\ errors' = Append(errors, Failure("connect", db_idx'))
                        /\ ConnectRefused
                        /\ UNCHANGED <<catalog, conn, db_count>>
                   [] OTHER ->
                        /\ errors' = Append(errors, Failure("connect", db_idx'))
                        /\ Uncaught
                        /\ UNCHANGED <<catalog, conn, db_count>>
    /\ UNCHANGED <<args, halt_time, db_list, table_list, tbl_idx, time_exit,
                   table_count, admin, stmts, termReqs, summary, interrupted>>

(* Line 227 left out: the session goes on to the candidate query with    *)
(* the server's default cost settings                                     *)
SetVacuumCostSkipped ==
    /\ pc = "set_cost"
    /\ Continue("get_list")
    /\ UNCHANGED <<args, catalog, now, halt_time, db_list, db_idx, table_list,
                   tbl_idx, time_exit, table_count, db_count, conn, admin,
                   sessions, stmts, termReqs, summary, errors, interrupted>>

(* set_vacuum_cost, called at line 227 *)
SetVacuumCost ==
    /\ pc = "set_cost"
    /\ \E d \in Delays, ok \in BOOLEAN :
         /\ Elapse(d)
         /\ IF ok
            THEN /\ sessions' = [sessions EXCEPT ![conn].cost = @ + 1]
                 /\ Continue("get_list")
                 /\ UNCHANGED errors
            ELSE /\ errors' = Append(errors, Failure("throttle", db_idx))
                 /\ Uncaught
                 /\ UNCHANGED sessions
    /\ UNCHANGED <<args, catalog, halt_time, db_list, db_idx, table_list, tbl_idx,
                   time_exit, table_count, db_count, conn, admin, stmts,
                   termReqs, summary, interrupted>>

(* main, lines 230-235: the candidate query of the mode *)
GetTableList ==
    /\ pc = "get_list"
    /\ \E d \in Delays, ok \in BOOLEAN :
         /\ Elapse(d)
         /\ IF ok
            THEN /\ \E l \in IF args.vacuum
                               THEN get_vacuum_list(catalog)
                               ELSE get_freeze_list(catalog, args.freezeage) :
                      table_list' = l
                 /\ tbl_idx' = 0
                 /\ sessions' = [sessions EXCEPT ![conn].listed = TRUE,
                                                 ![conn].tables = table_list']
                 /\ Continue("tables")
                 /\ UNCHANGED errors
            ELSE /\ errors' = Append(errors, Failure("candidates", db_idx))
                 /\ Uncaught
                 /\ UNCHANGED <<table_list, tbl_idx, sessions>>
    /\ UNCHANGED <<args, catalog, halt_time, db_list, db_idx, time_exit, table_count,
                   db_count, conn, admin, stmts, termReqs, summary,
                   interrupted>>

(* The for loop of line 238, taking the candidates from the last one *)
NextCandidateFromEnd(list, idx) == list[Len(list) - idx]

(* The for loop of line 238: the candidate after the idx already taken *)
NextCandidate(list, idx) == list[idx + 1]

(* The for loop of line 238 ending one candidate early *)
ListExhaustedEarly(list, idx) == idx >= Len(list) - 1

(* The for loop of line 238: no candidate is left after the idx taken *)
ListExhausted(list, idx) == idx = Len(list)

(* main, lines 238-247, and vacuum up to the sending of the statement,    *)
(* lines 168-181                                                          *)
NextTable ==
    /\ pc = "tables"
    /\ IF ListExhausted(table_list, tbl_idx)
       THEN /\ pc' = "pause"
            /\ UNCHANGED <<tbl_idx, time_exit, table_count, stmts>>
       ELSE IF DeadlinePassed(now, halt_time)
       THEN /\ time_exit' = TRUE
            /\ pc' = "pause"
            /\ UNCHANGED <<tbl_idx, table_count, stmts>>
       ELSE /\ tbl_idx' = tbl_idx + 1
            /\ table_count' = table_count + 1
            /\ stmts' = Append(stmts,
                 [session |-> conn,
                  db |-> db_list[db_idx],
                  db_idx |-> db_idx,
                  rank |-> tbl_idx + 1,
                  table |-> NextCandidate(table_list, tbl_idx),
                  freeze |-> ~args.vacuum,
                  at |-> now,
                  limited |-> args.enforcetime,
                  timeout |-> timeout_secs(halt_time, now),
                  ended |-> now,
                  outcome |-> "running"])
            /\ pc' = "vacuum"
            /\ UNCHANGED time_exit
    /\ UNCHANGED <<args, catalog, now, halt_time, db_list, db_idx, table_list,
                   db_count, conn, admin, sessions, termReqs, summary,
                   errors, interrupted, exitStatus, exitCause, exitAt>>

(* How a statement that would take d ticks ends: cancelled by the         *)
(* statement_timeout (in seconds) it was given, failed, or completed      *)
StatementEnd(st, d, ok) ==
    IF st.limited /\ d > st.timeout * TicksPerSecond
    THEN [outcome |-> "timeout", took |-> st.timeout * TicksPerSecond]
    ELSE [outcome |-> IF ok THEN "ok" ELSE "failed", took |-> d]

(* vacuum, lines 182-190: the handler of a failed statement, as it would  *)
(* be if it returned to the loop                                          *)
VacuumFailedReturns == Continue("tables")

(* vacuum, lines 182-190: the handler of a failed statement *)
VacuumFailed == Exit(1, "vacuum")

(* vacuum, lines 178-190: the statement in flight ends *)
Vacuum ==
    /\ pc = "vacuum"
    /\ \E d \in Delays, ok \in BOOLEAN :
         LET e == StatementEnd(stmts[Len(stmts)], d, ok) IN
         /\ Elapse(e.took)
         /\ stmts' = [stmts EXCEPT ![Len(stmts)].outcome = e.outcome,
                                   ![Len(stmts)].ended = now']
         /\ IF e.outcome = "ok"
            THEN /\ Continue("tables")
                 /\ UNCHANGED errors
            ELSE /\ errors' = Append(errors, Failure("vacuum", db_idx))
                 /\ VacuumFailed
    /\ UNCHANGED <<args, catalog, halt_time, db_list, db_idx, table_list, tbl_idx,
                   time_exit, table_count, db_count, conn, admin, sessions,
                   termReqs, summary, interrupted>>

(* main, lines 249-250 *)
Pause ==
    /\ pc = "pause"
    /\ Elapse(pause_time * TicksPerSecond)
    /\ sessions' = CloseSession(sessions, conn)
    /\ Continue("loop")
    /\ UNCHANGED <<args, catalog, halt_time, db_list, db_idx, table_list, tbl_idx,
                   time_exit, table_count, db_count, conn, admin, stmts,
                   termReqs, summary, errors, interrupted>>

(* main, lines 252-260, as it would be if it reported the databases the   *)
(* loop came to rather than db_count                                      *)
ReportVisited ==
    /\ pc = "report"
    /\ summary' = [reported |-> TRUE, tables |-> table_count,
                   dbs |-> db_idx, halted |-> time_exit]
    /\ Exit(0, "complete")
    /\ UNCHANGED <<args, catalog, now, halt_time, db_list, db_idx, table_list,
                   tbl_idx, time_exit, table_count, db_count, conn, admin,
                   sessions, stmts, termReqs, errors, interrupted>>

(* main, lines 252-260, as it would be if the halted branch logged no    *)
(* totals                                                                 *)
ReportUnlessHalted ==
    /\ pc = "report"
    /\ summary' = IF time_exit THEN summary
                  ELSE [reported |-> TRUE, tables |-> table_count,
                        dbs |-> db_count, halted |-> time_exit]
    /\ Exit(0, "complete")
    /\ UNCHANGED <<args, catalog, now, halt_time, db_list, db_idx, table_list,
                   tbl_idx, time_exit, table_count, db_count, conn, admin,
                   sessions, stmts, termReqs, errors, interrupted>>

(* main, lines 252-260 *)
Report ==
    /\ pc = "report"
    /\ summary' = [reported |-> TRUE, tables |-> table_count,
                   dbs |-> db_count, halted |-> time_exit]
    /\ Exit(0, "complete")
    /\ UNCHANGED <<args, catalog, now, halt_time, db_list, db_idx, table_list,
                   tbl_idx, time_exit, table_count, db_count, conn, admin,
                   sessions, stmts, termReqs, errors, interrupted>>

(* cleanup, lines 195-196: what it does with the connection it is given.  *)
(* None has no cursor() and a closed connection refuses one: both raise.  *)
CleanupRaises(c) == c = 0 \/ ~sessions[c].open

(* The request of lines 193-194 without its pid != pg_backend_pid() *)
TerminatedByAll(c) == OpenSessions

(* The backends the request of lines 193-194 terminates: those carrying   *)
(* the tool's application_name, but for the backend that runs the request *)
TerminatedBy(c) == { i \in OpenSessions : i # c }

(* execute, lines 262-266: KeyboardInterrupt is raised inside main; a     *)
(* statement in flight is abandoned                                       *)
Interrupt ==
    /\ pc # "done"
    /\ interrupted' = TRUE
    /\ stmts' = IF pc = "vacuum"
                THEN [stmts EXCEPT ![Len(stmts)].outcome = "interrupted"]
                ELSE stmts
    /\ IF CleanupRaises(conn)
       THEN /\ errors' = Append(errors, Failure("cleanup", db_idx))
            /\ Exit(1, "cleanup_raised")
            /\ UNCHANGED <<termReqs, sessions>>
       ELSE /\ termReqs' = Append(termReqs,
                 [by |-> conn, targets |-> TerminatedBy(conn)])
            /\ sessions' = CloseSession(sessions, conn)
            /\ Exit(0, "interrupted")
            /\ UNCHANGED errors
    /\ UNCHANGED <<args, catalog, now, halt_time, db_list, db_idx, table_list,
                   tbl_idx, time_exit, table_count, db_count, conn, admin,
                   summary>>

Next ==
    \/ Begin
    \/ AdminConnect
    \/ AdminQuery
    \/ NextDatabase
    \/ SetVacuumCost
    \/ GetTableList
    \/ NextTable
    \/ Vacuum
    \/ Pause
    \/ Report
    \/ Interrupt

Spec == Init /\ [][Next]_vars

----------------------------------------------------------------------------
(* The candidate queries on their own *)

(* The tables the candidate queries are tried on.  For get_freeze_list:   *)
(* ages on both sides of the threshold and equal to it, an old toast      *)
(* relation, system and temporary schemas, relations that are not tables. *)
(* For get_vacuum_list: n_dead_tup of 100 and 101, dead_pct of exactly    *)
(* 0.05, two tables whose dead_pct and dead/live ratio order them         *)
(* differently, a size of exactly 1000000 bytes, a recent autovacuum, an  *)
(* old vacuum, and tables that tie on dead_pct or on both keys.           *)
SelTables ==
    { Table(<<Alpha, 1>>, Public, "r", 15000000, Null,
            <<100, 10, 2000000, Null, Null>>),
      Table(<<Alpha, 2>>, Public, "r", 9000000, Null,
            <<101, 10, 2000000, Null, Null>>),
      Table(<<Alpha, 3>>, Public, "r", 20000000, Null,
            <<1000, 1, 2000000, Null, Null>>),
      Table(<<Alpha, 4>>, Public, "r", 10000000, Null,
            <<1800, 2, 2000000, Null, Null>>),
      Table(<<Alpha, 5>>, Public, "r", 9000000, Val(15000000),
            <<101, 2019, 2000000, Null, Null>>),
      Table(<<Alpha, 6>>, PgCatalog, "r", 20000000, Null,
            <<200, 10, 2000000, Null, Null>>),
      Table(<<Alpha, 7>>, PgTemp3, "r", 20000000, Null,
            <<0, 0, 0, Null, Null>>),
      Table(<<Alpha, 8>>, Public, "i", 20000000, Null,
            <<200, 10, 2000000, Null, Null>>),
      Table(<<Alpha, 9>>, InformationSchema, "r", 20000000, Null,
            <<200, 10, 2000000, Null, Null>>),
      Table(<<Alpha, 10>>, PgToast, "t", 20000000, Null,
            <<200, 10, 2000000, Null, Null>>),
      Table(<<Alpha, 11>>, Public, "r", 1000000, Null,
            <<200, 10, 1000000, Null, Null>>),
      Table(<<Alpha, 12>>, Public, "r", 1000000, Null,
            <<200, 10, 2000000, Val(30), Null>>),
      Table(<<Alpha, 13>>, Public, "r", 1000000, Null,
            <<200, 10, 2000000, Val(61), Val(61)>>),
      Table(<<Alpha, 14>>, Public, "r", 1000000, Null,
            <<202, 21, 3000000, Null, Null>>),
      Table(<<Alpha, 15>>, Public, "r", 1000000, Null,
            <<101, 10, 2000000, Null, Null>>) }

(* A database with one table more than LIMIT lets through, all of them    *)
(* past the default threshold and no two of the same age                  *)
BigCatalog ==
    { Table(<<Alpha, i>>, Public, "r", DefaultFreezeAge + i, Null,
            <<0, 0, 0, Null, Null>>) : i \in 1..(FreezeLimit + 1) }

SelCatalogs ==
    { c \in SUBSET SelTables : Cardinality(c) <= MaxRows } \cup {BigCatalog}

(* main at line 230 on its first database, with args.freezeage either the *)
(* default or 15000000                                                    *)
SelInit ==
    /\ args \in [run_min : {MaxBudget},
                 dblist : {Given(Alpha)},
                 vacuum : BOOLEAN,
                 enforcetime : {FALSE},
                 freezeage : {DefaultFreezeAge, 15000000}]
    /\ catalog \in SelCatalogs
    /\ pc = "get_list"
    /\ now = 0
    /\ halt_time = MaxBudget * SecondsPerMinute * TicksPerSecond
    /\ db_list = <<Alpha>>
    /\ db_idx = 1
    /\ table_list = <<>>
    /\ tbl_idx = 0
    /\ time_exit = FALSE
    /\ table_count = 0
    /\ db_count = 1
    /\ conn = 1
    /\ admin = 0
    /\ sessions = <<[Session(Alpha, "maint", TRUE, 0) EXCEPT !.cost = 1]>>
    /\ stmts = <<>>
    /\ termReqs = <<>>
    /\ summary = NoSummary
    /\ errors = <<>>
    /\ interrupted = FALSE
    /\ exitStatus = None
    /\ exitCause = None
    /\ exitAt = None

SelNext == GetTableList

SelSpec == SelInit /\ [][SelNext]_vars

----------------------------------------------------------------------------
(* Properties *)

Failed(st) == st.outcome \in {"failed", "timeout"}

PastSetup == pc \notin {"start", "admin_connect", "admin_query"}
             /\ (pc = "done" =>
                   exitAt \notin {"start", "admin_connect", "admin_query"})

(* C1: in both enforce-time modes a maintenance statement is only ever    *)
(* sent by a step that sees the clock strictly before the deadline and    *)
(* the halt flag unset; a step that finds a candidate left with the       *)
(* deadline reached sends nothing, sets the halt flag and leaves the      *)
(* table loop; and once the halt flag is set it stays set and no further  *)
(* statement is sent.                                                     *)
C1_DeadlineBeforeCandidate ==
    [][ /\ Len(stmts') > Len(stmts) =>
             /\ now < halt_time
             /\ stmts'[Len(stmts')].at < halt_time
             /\ ~time_exit
        /\ time_exit => (time_exit' /\ Len(stmts') = Len(stmts))
        /\ ( /\ pc = "tables"
             /\ tbl_idx < Len(table_list)
             /\ now >= halt_time
             /\ ~interrupted' ) =>
               (time_exit' /\ pc' = "pause" /\ stmts' = stmts) ]_vars

(* C1 witness: the run is deadline-halted after a statement was sent,     *)
(* with candidates of the database left over, enforce-time being off      *)
C1_Witness ==
    /\ time_exit
    /\ ~args.enforcetime
    /\ Len(stmts) >= 1
    /\ tbl_idx < Len(table_list)
    /\ pc = "pause"

(* C2: with a positive budget, no session to a database of the list is    *)
(* opened by a create_connection call made at or after the deadline.      *)
C2_NoDatabasePassAfterDeadline ==
    args.run_min > 0 =>
        \A i \in MaintSessions : sessions[i].at < halt_time

C4_ZeroBudgetOpensNothing ==
    (args.run_min = 0 /\ PastSetup /\ Len(db_list) > 0) =>
        /\ MaintSessions = {}
        /\ stmts = <<>>
        /\ summary.reported => (summary.tables = 0 /\ summary.halted)

C6_DatabaseFailureNeverStopsRun ==
    \A i \in 1..Len(errors) :
        (errors[i].db_idx > 0 /\ errors[i].kind \in {"connect", "candidates"})
            => pc # "done"

(* C6: a connection to a database of the list that cannot be opened, or a *)
(* candidate query that fails, ends the run at once: the process has      *)
(* exited with status 1 and without a summary, the failure is the last    *)
(* thing recorded, and no database after the failing one was touched.     *)
C6_DatabaseFailureStopsRun ==
    \A i \in 1..Len(errors) :
        (errors[i].db_idx > 0 /\ errors[i].kind \in {"connect", "candidates"})
            => /\ i = Len(errors)
               /\ pc = "done"
               /\ exitStatus = 1
               /\ ~summary.reported
               /\ db_idx = errors[i].db_idx

(* C6 witness: the connection to the first of two databases was refused   *)
(* and the process has ended without touching the second                  *)
C6_Witness ==
    /\ pc = "done"
    /\ exitCause = "connect"
    /\ errors = <<Failure("connect", 1)>>
    /\ Len(db_list) = 2
    /\ MaintSessions = {}

(* C7: the process never terminates while a session it opened to a        *)
(* database of the list is still open.                                    *)
C7_NoSessionOpenAtExit ==
    pc = "done" => \A i \in MaintSessions : ~sessions[i].open

(* C8: an interrupt delivered while self.conn is an open session makes    *)
(* the process send exactly one termination request, on that session and  *)
(* not aimed at its own backend, close that session and terminate.        *)
C8_InterruptWithActiveSession ==
    [][ ( /\ ~interrupted
          /\ interrupted'
          /\ conn # 0
          /\ sessions[conn].open ) =>
            /\ termReqs = <<>>
            /\ Len(termReqs') = 1
            /\ termReqs'[1].by = conn
            /\ conn \notin termReqs'[1].targets
            /\ ~sessions'[conn].open
            /\ pc' = "done" ]_vars

(* C8 witness: interrupted with a maintenance statement in flight *)
C8_Witness ==
    /\ interrupted
    /\ pc = "done"
    /\ exitAt = "vacuum"
    /\ Len(termReqs) = 1
    /\ stmts[Len(stmts)].outcome = "interrupted"

(* C9: an interrupt delivered while no session is active (self.conn is    *)
(* None or closed) sends no request and raises no error.                  *)
C9_InterruptWithoutSessionIsNoOp ==
    (interrupted /\ termReqs = <<>>) =>
        (pc = "done" /\ exitCause # "cleanup_raised" /\ errors = <<>>)

(* C10: with no override, an administrative query that returns no         *)
(* database never leads into the database loop or to a summary: the run   *)
(* ends with a non-zero exit status.                                      *)
C10_NoTargetsAborts ==
    (~args.dblist.given /\ db_list = <<>> /\ PastSetup) =>
        (pc = "done" /\ exitStatus # 0 /\ ~summary.reported)

InFlight == { i \in 1..Len(stmts) : stmts[i].outcome = "running" }

(* C11: at every moment at most one session is open and at most one       *)
(* maintenance statement is in flight; no session to a database of the    *)
(* list exists while the administrative session is open, and every        *)
(* maintenance statement runs on a session to a database of the list,     *)
(* the one session then open.                                             *)
C11_OneSessionOneStatement ==
    /\ Cardinality(OpenSessions) <= 1
    /\ Cardinality(InFlight) <= 1
    /\ (admin # 0 /\ sessions[admin].open) => MaintSessions = {}
    /\ \A i \in 1..Len(stmts) : sessions[stmts[i].session].kind = "maint"
    /\ \A i \in InFlight : OpenSessions = {stmts[i].session}

(* C11 witness: a statement is in flight on the second database's         *)
(* session, after the administrative session and the first database's    *)
(* session were opened and closed                                         *)
C11_Witness ==
    /\ admin # 0
    /\ Cardinality(MaintSessions) = 2
    /\ Cardinality(OpenSessions) = 1
    /\ InFlight # {}
    /\ Len(stmts) >= 2

(* C12: the statements sent follow the database list and, within each     *)
(* database, the rows of its candidate query in the order returned: the   *)
(* first statement is the first row of its database, each later one is    *)
(* the next row of the same database or the first row of a later          *)
(* database, so none is out of order or sent twice; a statement is only   *)
(* ever followed by another when it succeeded, so a failed candidate is   *)
(* never retried.                                                         *)
C12_StatementsFollowListOrder ==
    \A i \in 1..Len(stmts) :
        LET st == stmts[i]
            se == sessions[st.session]
        IN /\ st.db_idx \in 1..Len(db_list)
           /\ st.db = db_list[st.db_idx]
           /\ se.db = st.db
           /\ st.rank \in 1..Len(se.tables)
           /\ st.table = se.tables[st.rank]
           /\ i = 1 => st.rank = 1
           /\ i > 1 =>
                LET prev == stmts[i - 1] IN
                /\ prev.outcome = "ok"
                /\ \/ st.db_idx = prev.db_idx /\ st.rank = prev.rank + 1
                      /\ st.session = prev.session
                   \/ st.db_idx > prev.db_idx /\ st.rank = 1
                      /\ st.session > prev.session

(* C12 witness: two candidates of the first database and then one of the  *)
(* second have been processed                                             *)
C12_Witness ==
    /\ Len(stmts) >= 3
    /\ stmts[1].db_idx = 1
    /\ stmts[2].db_idx = 1
    /\ stmts[2].rank = 2
    /\ stmts[3].db_idx = 2
    /\ Len(sessions[stmts[3].session].tables) >= 2

C14_StatementTimeout ==
    \A i \in 1..Len(stmts) :
        LET st == stmts[i]
            left == halt_time - st.at
        IN /\ st.limited = args.enforcetime
           /\ st.limited =>
                /\ st.timeout > 0
                /\ (st.timeout - GraceSecs) * TicksPerSecond <= left
                /\ left < (st.timeout - GraceSecs + 1) * TicksPerSecond
                /\ st.outcome \in {"ok", "failed", "timeout"} =>
                     st.ended <= halt_time + GraceSecs * TicksPerSecond
           /\ ~st.limited => st.outcome # "timeout"

(* C14 witness: a statement sent a fraction of a second off the deadline's *)
(* grid was cancelled by its timeout, after the deadline                   *)
C14_Witness ==
    /\ Len(stmts) >= 1
    /\ stmts[Len(stmts)].outcome = "timeout"
    /\ (halt_time - stmts[Len(stmts)].at) % TicksPerSecond # 0
    /\ stmts[Len(stmts)].ended > halt_time

(* ','.join(names) *)
RECURSIVE Join(_)
Join(names) ==
    IF Len(names) = 0 THEN <<>>
    ELSE IF Len(names) = 1 THEN names[1]
    ELSE names[1] \o <<Sep>> \o Join(Tail(names))

(* C15: with an override, the database list is the override's names in    *)
(* the caller's order (no name holds a comma, and the names joined by     *)
(* commas are the override again; "alpha,beta" gives [alpha, beta]), and  *)
(* no administrative session is ever opened and no ranking query run.     *)
C15_OverrideVerbatim ==
    args.dblist.given =>
        /\ PastSetup =>
             /\ \A i \in 1..Len(db_list) :
                  \A k \in 1..Len(db_list[i]) : db_list[i][k] # Sep
             /\ Join(db_list) = args.dblist.text
             /\ args.dblist.text = <<"alpha", Sep, "beta">> =>
                  db_list = <<Alpha, Beta>>
        /\ admin = 0
        /\ \A i \in 1..Len(sessions) :
             sessions[i].kind # "admin" /\ sessions[i].db # Postgres
        /\ \A i \in 1..Len(errors) : errors[i].kind # "ranking"

(* C15 witness: "alpha,beta" was given and both databases were connected  *)
(* to, alpha first                                                        *)
C15_Witness ==
    /\ args.dblist.given
    /\ args.dblist.text = <<"alpha", Sep, "beta">>
    /\ db_idx = 2
    /\ Cardinality(MaintSessions) = 2
    /\ \A i, j \in MaintSessions :
         (sessions[i].db = Alpha /\ sessions[j].db = Beta) => i < j

----------------------------------------------------------------------------
(* The row of the connected database named name *)
Row(name) == CHOOSE r \in catalog : r.full_table_name = name

(* The candidate query of the current database has returned *)
Selected == pc = "tables" /\ tbl_idx = 0 /\ stmts = <<>>

(* C16: in freeze mode the candidate list names exactly the ordinary      *)
(* tables (relkind r, outside pg_catalog, information_schema and the      *)
(* temporary schemas) whose age, the greater of the table's and of its    *)
(* toast relation's, is strictly greater than args.freezeage, by that age *)
(* descending, cut after the first FreezeLimit; ages 15000000, 9000000    *)
(* and 20000000 under the threshold 10000000 give 20000000 then 15000000; *)
(* an empty list is returned without any error.                           *)
C16_FreezeSelector ==
    (Selected /\ ~args.vacuum) =>
        LET Age(r) == IF r.toast_age.null \/ r.toast_age.val <= r.age
                      THEN r.age ELSE r.toast_age.val
            Ordinary == { r \in catalog :
                            /\ r.relkind = "r"
                            /\ r.nspname \notin {PgCatalog, InformationSchema,
                                                 PgTemp3} }
            Due == { r \in Ordinary : Age(r) > args.freezeage }
            n == Len(table_list)
            listed == { table_list[i] : i \in 1..n }
        IN  /\ n = IF Cardinality(Due) <= FreezeLimit
                   THEN Cardinality(Due) ELSE FreezeLimit
            /\ Cardinality(listed) = n
            /\ listed \subseteq { r.full_table_name : r \in Due }
            /\ \A i \in 1..(n - 1) :
                 Age(Row(table_list[i])) >= Age(Row(table_list[i + 1]))
            /\ \A r \in Due :
                 r.full_table_name \notin listed =>
                     Age(r) <= Age(Row(table_list[n]))
            /\ ( /\ args.freezeage = 10000000
                 /\ Cardinality(Ordinary) = 3
                 /\ { Age(r) : r \in Ordinary } = {15000000, 9000000, 20000000} )
                 => [i \in 1..n |-> Age(Row(table_list[i]))]
                      = <<20000000, 15000000>>
            /\ errors = <<>>
            /\ exitStatus = None

(* A list cut at FreezeLimit: the database has more tables past the      *)
(* threshold than that                                                    *)
C16_Witness ==
    /\ Selected
    /\ ~args.vacuum
    /\ Len(table_list) = FreezeLimit
    /\ Cardinality(catalog) > FreezeLimit

(* C17 as claimed: in routine mode the candidate list names exactly the   *)
(* tables with at least 100 dead rows, more than 5 dead rows to 100 live  *)
(* ones, more than 1000000 bytes and no autovacuum or vacuum within the   *)
(* last hour, and A is listed before B if and only if A's dead-to-live    *)
(* ratio is the greater, or the ratios are equal and A is the larger.     *)
C17_RoutineSelectorAsClaimed ==
    (Selected /\ args.vacuum) =>
        LET Due == { r \in pg_stat_user_tables(catalog) :
                       /\ r.n_dead_tup >= 100
                       /\ r.n_dead_tup * 100 > 5 * r.n_live_tup
                       /\ r.table_bytes > 1000000
                       /\ r.last_autovacuum.null \/ r.last_autovacuum.val > 60
                       /\ r.last_vacuum.null \/ r.last_vacuum.val > 60 }
            First(a, b) ==
                LET ra == a.n_dead_tup * b.n_live_tup
                    rb == b.n_dead_tup * a.n_live_tup
                IN  ra > rb \/ (ra = rb /\ a.table_bytes > b.table_bytes)
            n == Len(table_list)
        IN  /\ { table_list[i] : i \in 1..n }
                 = { r.full_table_name : r \in Due }
            /\ \A i, j \in 1..n :
                 i # j =>
                   (i < j <=> First(Row(table_list[i]), Row(table_list[j])))

(* C17: in routine mode the candidate list names, once each, exactly the  *)
(* tables with more than 100 dead rows, n_dead_tup / (n_live_tup + 1)     *)
(* above 0.05, more than 1000000 bytes, and both the last autovacuum and  *)
(* the last vacuum more than an hour ago or never; a table is listed      *)
(* before every table whose n_dead_tup / (n_live_tup + 1) is smaller, or  *)
(* equal with a smaller size, and tables equal in both come in any order. *)
C17_RoutineSelector ==
    (Selected /\ args.vacuum) =>
        LET Due == { r \in pg_stat_user_tables(catalog) :
                       /\ r.n_dead_tup > 100
                       /\ r.n_dead_tup * 100 > 5 * (r.n_live_tup + 1)
                       /\ r.table_bytes > 1000000
                       /\ r.last_autovacuum.null \/ r.last_autovacuum.val > 60
                       /\ r.last_vacuum.null \/ r.last_vacuum.val > 60 }
            First(a, b) ==
                LET ra == a.n_dead_tup * (b.n_live_tup + 1)
                    rb == b.n_dead_tup * (a.n_live_tup + 1)
                IN  ra > rb \/ (ra = rb /\ a.table_bytes > b.table_bytes)
            n == Len(table_list)
        IN  /\ { table_list[i] : i \in 1..n }
                 = { r.full_table_name : r \in Due }
            /\ n = Cardinality(Due)
            /\ \A i, j \in 1..n :
                 First(Row(table_list[i]), Row(table_list[j])) => i < j
            /\ errors = <<>>

(* A table of exactly 100 dead rows is left out, and the table of 1800    *)
(* dead rows to 2 live ones is listed before that of 1000 to 1            *)
C17_Witness ==
    /\ Selected
    /\ args.vacuum
    /\ \E r \in catalog :
         /\ r.n_dead_tup = 100
         /\ r.n_live_tup = 10
         /\ r.table_bytes > 1000000
         /\ r.last_autovacuum.null /\ r.last_vacuum.null
         /\ \A i \in 1..Len(table_list) : table_list[i] # r.full_table_name
    /\ Len(table_list) = 2
    /\ Row(table_list[1]).n_dead_tup = 1800
    /\ Row(table_list[2]).n_dead_tup = 1000

(* The statements that have completed successfully so far *)
Succeeded == { i \in 1..Len(stmts) : stmts[i].outcome = "ok" }

(* C18: whenever no maintenance statement is in flight, table_count is    *)
(* the number of maintenance statements that have completed successfully  *)
(* so far; a statement that failed has not been counted.                  *)
C18_CounterCountsSuccesses ==
    InFlight = {} => table_count = Cardinality(Succeeded)

(* The sessions on which set_vacuum_cost was applied *)
Throttled == { i \in 1..Len(sessions) : sessions[i].cost > 0 }

(* C19: when the summary has been logged, the tables it reports are as    *)
(* many as the statements that completed successfully, and the databases  *)
(* it reports are as many as the sessions set_vacuum_cost was applied to; *)
(* a session opened after the halt has no throttle and is not counted.    *)
C19_SummaryCounts ==
    summary.reported =>
        /\ summary.tables = Cardinality(Succeeded)
        /\ summary.dbs = Cardinality(Throttled)
        /\ \A i \in MaintSessions :
             i \notin Throttled =>
                 /\ summary.halted
                 /\ i = Len(sessions)
                 /\ summary.dbs = Cardinality(MaintSessions) - 1

(* A halted run of two successful statements on its first database, that *)
(* connected to its second database after the halt                        *)
C19_Witness ==
    /\ summary.reported
    /\ summary.halted
    /\ summary.tables = 2
    /\ summary.dbs = 1
    /\ Cardinality(MaintSessions) = 2

(* C20: when the summary reports completion (time_exit false), every      *)
(* database of db_list was connected to in turn and every candidate its   *)
(* query returned has had exactly one maintenance statement, which        *)
(* completed successfully; and time_exit is only ever set by the test of  *)
(* line 241, made before a candidate at a time now >= halt_time.          *)
C20_CompletionMeansAllDone ==
    /\ [](  (summary.reported /\ ~summary.halted) =>
              /\ Cardinality(MaintSessions) = Len(db_list)
              /\ \A i \in MaintSessions :
                   /\ sessions[i].listed
                   /\ \A k \in 1..Len(sessions[i].tables) :
                        /\ Cardinality({ j \in 1..Len(stmts) :
                                           /\ stmts[j].session = i
                                           /\ stmts[j].table
                                                = sessions[i].tables[k] }) = 1
                        /\ \E j \in Succeeded :
                             /\ stmts[j].session = i
                             /\ stmts[j].rank = k
                             /\ stmts[j].table = sessions[i].tables[k]
              /\ \A j \in 1..Len(db_list) :
                   \E i \in MaintSessions :
                       /\ sessions[i].db = db_list[j]
                       /\ Cardinality({ h \in MaintSessions : h <= i }) = j )
    /\ [][ (time_exit' /\ ~time_exit) =>
              /\ pc = "tables"
              /\ tbl_idx < Len(table_list)
              /\ now >= halt_time
              /\ stmts' = stmts ]_vars

(* A completion report after two databases of two candidates or more     *)
(* each                                                                   *)
C20_Witness ==
    /\ summary.reported
    /\ ~summary.halted
    /\ Len(db_list) = 2
    /\ \A i \in MaintSessions : Len(sessions[i].tables) >= 2

====
